---- MODULE Spec2Model ----
(***************************************************************************)
(* Model of src/src/isal/igzip_threaded.py: ThreadedGzipWriter (caller,    *)
(* N compression workers, one output sequencer) and ThreadedGzipReader     *)
(* (prefetch worker, consumer).  Every access to shared state (a queue     *)
(* operation, a read or write of a shared attribute, a sink write) is one  *)
(* step; thread-local computation is folded into the step that follows a   *)
(* shared access.                                                          *)
(*                                                                         *)
(* Byte strings of the write path are runs [byte, len] (len copies of      *)
(* byte) so that lengths beyond the deflate window and totals beyond 2^32  *)
(* are representable; a memoryview is [byte, off, len].  Unbounded Python  *)
(* integers that can pass 2^31 are pairs <<hi, lo>> in base 2^16.          *)
(***************************************************************************)
EXTENDS Integers, Sequences, FiniteSets, TLC

\* ---- bounds of the model ------------------------------------------------
MaxThreads == 2
queue_size == 1
MaxWrites == 3
MaxFairWrites == 2
\* the reader: queue_size and block_size of the constructor, the length of
\* the decompressed stream, the largest target of readinto
ReaderQueueSize == 1
BlockSize == 2
MaxSource == 3
MaxTarget == 2

\* ---- program constants --------------------------------------------------
DEFLATE_WINDOW_SIZE == 32768

Limb == 256 * 256
CrcModulus == 251
CrcBase == 3

EmptyBytes == [byte |-> 0, len |-> 0]

\* the payloads a caller may write: one shorter than the window and one
\* longer than the window (three of the latter exceed 2^32 - 1 in total)
Payloads == { [byte |-> 1, len |-> 3], [byte |-> 2, len |-> 2147418112] }

\* ---- codec collaborator (isal_zlib) -------------------------------------
\* CrcBase^n  (mod CrcModulus), by repeated squaring
SquareMod == [h \in 0 .. (CrcModulus - 1) |-> (h * h) % CrcModulus]

RECURSIVE PowMod(_)
PowMod(n) ==
  IF n = 0 THEN 1
  ELSE (SquareMod[PowMod(n \div 2)] * (IF n % 2 = 0 THEN 1 ELSE CrcBase))
         % CrcModulus

\* 1 + B + ... + B^(n-1)  (mod CrcModulus)
GeoSum[n \in Nat] ==
  IF n = 0 THEN 0
  ELSE IF n % 2 = 1 THEN (GeoSum[n - 1] * CrcBase + 1) % CrcModulus
  ELSE (GeoSum[n \div 2] * (1 + PowMod(n \div 2))) % CrcModulus

GeoMod(n) == GeoSum[n]

\* isal_zlib.crc32(data): a polynomial checksum of the bytes of data
crc32(data) == (data.byte * GeoMod(data.len)) % CrcModulus

\* isal_zlib.crc32_combine(crc1, crc2, len2) = crc32(a || b)
crc32_combine(crc1, crc2, len2) == (crc1 * PowMod(len2) + crc2) % CrcModulus

\* compressobj(level, wbits=-15, zdict).compress(data) + flush(Z_SYNC_FLUSH):
\* a block that decodes to data when the decoder's window ends with zdict
Deflate(data, zdict) == [kind |-> "block", data |-> data, zdict |-> zdict]

\* isal_zlib.compress(b"", wbits=-15)
EndMarker == [kind |-> "end"]

\* ---- pure helpers of the writer -----------------------------------------
\* memoryview(previous_block)[-DEFLATE_WINDOW_SIZE:]
ZDictWrong(previous_block, data) ==
  LET start == IF data.len - DEFLATE_WINDOW_SIZE < 0
               THEN 0 ELSE data.len - DEFLATE_WINDOW_SIZE
  IN [byte |-> data.byte, off |-> start, len |-> data.len - start]

ZDict(previous_block, data) ==
  LET start == IF previous_block.len - DEFLATE_WINDOW_SIZE < 0
               THEN 0 ELSE previous_block.len - DEFLATE_WINDOW_SIZE
  IN [byte |-> previous_block.byte, off |-> start,
      len |-> previous_block.len - start]

\* write(): worker_index = index % self.threads
WorkerIndexStuck(i, n) == 0

WorkerIndex(i, n) == i % n

\* _write(): out_index = index % self.threads
OutIndexStuck(i, n) == 0

OutIndex(i, n) == i % n

\* size += data_length on an unbounded integer
AddLength(size, n) ==
  LET lo == size[2] + (n % Limb)
  IN <<size[1] + (n \div Limb) + (lo \div Limb), lo % Limb>>

\* struct.pack("BBBBIBB", magic1, magic2, method, flags, mtime, os, xfl)
GzipHeader == [kind |-> "header"]

\* struct.pack("<II", self._crc, self._size & 0xFFFFFFFF)
TrailerWrong(crc, size) == [kind |-> "trailer", crc |-> crc, size |-> size]

Trailer(crc, size) ==
  [kind |-> "trailer", crc |-> crc, size |-> <<size[1] % Limb, size[2]>>]

\* ---- state ----------------------------------------------------------------
VARIABLES
  \* ThreadedGzipWriter attributes
  raw,             \* the sink: [data: the sequence of writes, closed]
  threads,
  previous_block, input_queues, in_unfinished, output_queues, out_unfinished,
  index, _crc, running, _size, _closed,
  \* caller thread: position, the public call it is in, its locals, the
  \* outcome of the last call that ended
  cpc, cop, ck, citem, ret,
  \* compression workers: position and the unit in hand
  wpc, wunit,
  \* output sequencer: position and locals
  spc, sindex, total_crc, size, sunit,
  \* history: the payloads of the write calls, in call order; whether a
  \* thread had failed when the caller's present or last call began
  written, after_failure,
  \* ThreadedGzipReader attributes; fileobj is the position in the
  \* decompressed stream, whose bytes are numbered 1, 2, ...
  r_fileobj, r_pos, r_queue, r_exception, r_buffer, r_running,
  \* the prefetch worker: position and the chunk in hand
  dpc, ddata,
  \* the consumer: position, the size of the target of the readinto call it
  \* is in, the outcome of the last call that ended
  rpc, rtarget, rret,
  \* history: the chunks put on the queue, the bytes readinto has returned
  r_produced, r_delivered

wvars == <<raw, threads, previous_block, input_queues, in_unfinished,
           output_queues, out_unfinished, index, _crc, running, _size,
           _closed, cpc, cop, ck, citem, ret, wpc, wunit,
           spc, sindex, total_crc, size, sunit, written, after_failure>>

reader == <<r_fileobj, r_pos, r_queue, r_exception, r_buffer, r_running,
            dpc, ddata, rpc, rtarget, rret, r_produced, r_delivered>>

vars == <<wvars, reader>>

Workers == 0 .. (threads - 1)

config == <<threads>>
queues == <<input_queues, in_unfinished, output_queues, out_unfinished>>
workers == <<wpc, wunit>>
sequencer == <<spc, sindex, total_crc, size, sunit>>

NoInput == [data |-> EmptyBytes, zdict |-> ZDict(EmptyBytes, EmptyBytes),
            call |-> -1]
NoUnit == [compressed |-> EndMarker, crc |-> 0, data_length |-> 0, call |-> -1]

InitWriter ==
  /\ raw = [data |-> <<>>, closed |-> FALSE]
  /\ threads \in 1 .. MaxThreads
  /\ previous_block = EmptyBytes
  /\ input_queues = [k \in Workers |-> <<>>]
  /\ in_unfinished = [k \in Workers |-> 0]
  /\ output_queues = [k \in Workers |-> <<>>]
  /\ out_unfinished = [k \in Workers |-> 0]
  /\ index = 0
  /\ _crc = 0
  /\ running = FALSE
  /\ _size = <<0, 0>>
  /\ _closed = FALSE
  /\ cpc = "header" /\ cop = "init" /\ ck = 0 /\ citem = NoInput
  /\ ret = [op |-> "none", outcome |-> "none", val |-> 0]
  /\ wpc = [k \in Workers |-> "new"]
  /\ wunit = [k \in Workers |-> NoUnit]
  /\ spc = "new" /\ sindex = 0 /\ total_crc = 0 /\ size = <<0, 0>>
  /\ sunit = NoUnit
  /\ written = <<>> /\ after_failure = FALSE

InitReader ==
  /\ r_fileobj = [pos |-> 0, eof |-> FALSE, closed |-> FALSE]
  /\ r_pos = 0
  /\ r_queue = <<>>
  /\ r_exception = "none"
  /\ r_buffer = <<>>
  /\ r_running = TRUE
  /\ dpc = "top" /\ ddata = <<>>
  /\ rpc = "idle" /\ rtarget = 0
  /\ rret = [op |-> "none", target |-> 0, outcome |-> "none", val |-> 0]
  /\ r_produced = <<>>
  /\ r_delivered = <<>>

Init == InitWriter /\ InitReader

\* ---- threads --------------------------------------------------------------
\* a thread whose target function was left by an exception
Failed(pc) == pc = "failed"

\* not Thread.is_alive(): the target function has returned or was left by
\* an exception
Terminated(pc) == pc = "dead" \/ Failed(pc)

AnyFailed == Failed(spc) \/ \E k \in Workers : Failed(wpc[k])

\* ---- the caller: __init__ -------------------------------------------------
WriteGzipHeader ==
  /\ cpc = "header"
  /\ raw' = [raw EXCEPT !.data = Append(@, GzipHeader)]
  /\ cpc' = "start"
  /\ UNCHANGED <<reader, config, after_failure, previous_block, queues, index,
                 _crc, running, _size, _closed, cop, ck, citem, ret, workers,
                 sequencer, written>>

\* start(): self.running = True
StartRunning ==
  /\ cpc = "start"
  /\ running' = TRUE
  /\ cpc' = "start_output"
  /\ UNCHANGED <<reader, raw, config, after_failure, previous_block, queues,
                 index, _crc, _size, _closed, cop, ck, citem, ret, workers,
                 sequencer, written>>

\* start(): self.output_worker.start()
StartOutput ==
  /\ cpc = "start_output"
  /\ spc' = "top"
  /\ cpc' = "start_worker" /\ ck' = 0
  /\ UNCHANGED <<reader, raw, config, after_failure, previous_block, queues,
                 index, _crc, running, _size, _closed, cop, citem, ret,
                 workers, sindex, total_crc, size, sunit, written>>

\* start(): for worker in self.compression_workers: worker.start()
StartWorker ==
  /\ cpc = "start_worker"
  /\ wpc' = [wpc EXCEPT ![ck] = "top"]
  /\ IF ck + 1 < threads
     THEN ck' = ck + 1 /\ UNCHANGED <<cpc, cop>>
     ELSE ck' = 0 /\ cpc' = "idle" /\ cop' = "none"
  /\ UNCHANGED <<reader, raw, config, after_failure, previous_block, queues,
                 index, _crc, running, _size, _closed, citem, ret, wunit,
                 sequencer, written>>

\* ---- the caller: write ----------------------------------------------------
\* raise IOError("Can not write closed file")
RaiseClosed(op) ==
  /\ ret' = [op |-> op, outcome |-> "IOError", val |-> 0]
  /\ after_failure' = AnyFailed
  /\ UNCHANGED <<reader, raw, config, previous_block, queues, index, _crc,
                 running, _size, _closed, cpc, cop, ck, citem, workers,
                 sequencer, written>>

\* write(), up to the blocking put
WriteAccept(b) ==
  /\ index < MaxWrites
  /\ citem' = [data |-> b, zdict |-> ZDict(previous_block, b), call |-> index]
  /\ previous_block' = b
  /\ index' = index + 1
  /\ written' = Append(written, b)
  /\ cop' = "write" /\ cpc' = "put"
  /\ after_failure' = AnyFailed
  /\ UNCHANGED <<reader, raw, config, queues, _crc, running, _size, _closed,
                 ck, ret, workers, sequencer>>

WriteCallUnchecked(b) ==
  /\ cpc = "idle"
  /\ WriteAccept(b)

WriteCall(b) ==
  /\ cpc = "idle"
  /\ IF _closed THEN RaiseClosed("write") ELSE WriteAccept(b)

\* self.input_queues[worker_index].put((data, zdict)); return len(data)
WritePutLossy ==
  /\ cpc = "put"
  /\ LET w == WorkerIndex(citem.call, threads)
     IN IF Len(input_queues[w]) < queue_size
        THEN /\ input_queues' = [input_queues EXCEPT ![w] = Append(@, citem)]
             /\ in_unfinished' = [in_unfinished EXCEPT ![w] = @ + 1]
        ELSE UNCHANGED <<input_queues, in_unfinished>>
  /\ ret' = [op |-> "write", outcome |-> "ok", val |-> citem.data.len]
  /\ cpc' = "idle" /\ cop' = "none" /\ citem' = NoInput
  /\ UNCHANGED <<reader, raw, config, after_failure, previous_block,
                 output_queues, out_unfinished, index, _crc, running, _size,
                 _closed, ck, workers, sequencer, written>>

WritePut ==
  /\ cpc = "put"
  /\ LET w == WorkerIndex(citem.call, threads)
     IN /\ Len(input_queues[w]) < queue_size
        /\ input_queues' = [input_queues EXCEPT ![w] = Append(@, citem)]
        /\ in_unfinished' = [in_unfinished EXCEPT ![w] = @ + 1]
  /\ ret' = [op |-> "write", outcome |-> "ok", val |-> citem.data.len]
  /\ cpc' = "idle" /\ cop' = "none" /\ citem' = NoInput
  /\ UNCHANGED <<reader, raw, config, after_failure, previous_block,
                 output_queues, out_unfinished, index, _crc, running, _size,
                 _closed, ck, workers, sequencer, written>>

\* ---- the caller: flush and close ------------------------------------------
\* entry of flush(), called directly or as the first statement of close()
EnterFlush(op) ==
  /\ cpc = "idle"
  /\ IF _closed THEN RaiseClosed(op)
     ELSE /\ cop' = op /\ cpc' = "join_in" /\ ck' = 0
          /\ after_failure' = AnyFailed
          /\ UNCHANGED <<reader, raw, config, previous_block, queues, index,
                         _crc, running, _size, _closed, citem, ret, workers,
                         sequencer, written>>

FlushCall == EnterFlush("flush")

CloseCall == EnterFlush("close")

\* for in_q in self.input_queues: in_q.join()
FlushJoinIn ==
  /\ cpc = "join_in"
  /\ in_unfinished[ck] = 0
  /\ IF ck + 1 < threads
     THEN ck' = ck + 1 /\ cpc' = cpc
     ELSE ck' = 0 /\ cpc' = "join_out"
  /\ UNCHANGED <<reader, raw, config, after_failure, previous_block, queues,
                 index, _crc, running, _size, _closed, cop, citem, ret,
                 workers, sequencer, written>>

\* for out_q in self.output_queues: out_q.join()
FlushJoinOutSkip ==
  /\ cpc = "join_out"
  /\ ck' = 0 /\ cpc' = "raw_flush"
  /\ UNCHANGED <<reader, raw, config, after_failure, previous_block, queues,
                 index, _crc, running, _size, _closed, cop, citem, ret,
                 workers, sequencer, written>>

FlushJoinOut ==
  /\ cpc = "join_out"
  /\ out_unfinished[ck] = 0
  /\ IF ck + 1 < threads
     THEN ck' = ck + 1 /\ cpc' = cpc
     ELSE ck' = 0 /\ cpc' = "raw_flush"
  /\ UNCHANGED <<reader, raw, config, after_failure, previous_block, queues,
                 index, _crc, running, _size, _closed, cop, citem, ret,
                 workers, sequencer, written>>

\* self.raw.flush(), the last statement of flush(); the sink has no
\* buffer of its own in the model
FlushRaw ==
  /\ cpc = "raw_flush"
  /\ raw' = raw
  /\ IF cop = "close"
     THEN cpc' = "stop" /\ UNCHANGED <<cop, ret>>
     ELSE cpc' = "idle" /\ cop' = "none"
          /\ ret' = [op |-> "flush", outcome |-> "ok", val |-> 0]
  /\ UNCHANGED <<reader, config, after_failure, previous_block, queues, index,
                 _crc, running, _size, _closed, ck, citem, workers, sequencer,
                 written>>

\* stop_immediately(): self.running = False
StopRunning ==
  /\ cpc = "stop"
  /\ running' = FALSE
  /\ cpc' = "join_output"
  /\ UNCHANGED <<reader, raw, config, after_failure, previous_block, queues,
                 index, _crc, _size, _closed, cop, ck, citem, ret, workers,
                 sequencer, written>>

\* stop_immediately(): self.output_worker.join()
JoinOutputNoWait ==
  /\ cpc = "join_output"
  /\ cpc' = "join_worker" /\ ck' = 0
  /\ UNCHANGED <<reader, raw, config, after_failure, previous_block, queues,
                 index, _crc, running, _size, _closed, cop, citem, ret,
                 workers, sequencer, written>>

JoinOutput ==
  /\ cpc = "join_output"
  /\ Terminated(spc)
  /\ cpc' = "join_worker" /\ ck' = 0
  /\ UNCHANGED <<reader, raw, config, after_failure, previous_block, queues,
                 index, _crc, running, _size, _closed, cop, citem, ret,
                 workers, sequencer, written>>

\* stop_immediately(): for worker in self.compression_workers: worker.join()
JoinWorker ==
  /\ cpc = "join_worker"
  /\ Terminated(wpc[ck])
  /\ IF ck + 1 < threads
     THEN ck' = ck + 1 /\ UNCHANGED <<cpc, cop, ret>>
     ELSE /\ ck' = 0
          /\ IF cop = "close"
             THEN cpc' = "marker" /\ UNCHANGED <<cop, ret>>
             ELSE /\ cpc' = "idle" /\ cop' = "none"
                  /\ ret' = [op |-> "stop_immediately", outcome |-> "ok",
                             val |-> 0]
  /\ UNCHANGED <<reader, raw, config, after_failure, previous_block, queues,
                 index, _crc, running, _size, _closed, citem, workers,
                 sequencer, written>>

\* close(): self.raw.write(isal_zlib.compress(b"", wbits=-15))
CloseMarkerOmitted ==
  /\ cpc = "marker"
  /\ cpc' = "trailer"
  /\ UNCHANGED <<reader, raw, config, after_failure, previous_block, queues,
                 index, _crc, running, _size, _closed, cop, ck, citem, ret,
                 workers, sequencer, written>>

CloseMarker ==
  /\ cpc = "marker"
  /\ raw' = [raw EXCEPT !.data = Append(@, EndMarker)]
  /\ cpc' = "trailer"
  /\ UNCHANGED <<reader, config, after_failure, previous_block, queues, index,
                 _crc, running, _size, _closed, cop, ck, citem, ret, workers,
                 sequencer, written>>

\* close(): self.raw.write(struct.pack("<II", ...))
CloseTrailer ==
  /\ cpc = "trailer"
  /\ raw' = [raw EXCEPT !.data = Append(@, Trailer(_crc, _size))]
  /\ cpc' = "close_flush"
  /\ UNCHANGED <<reader, config, after_failure, previous_block, queues, index,
                 _crc, running, _size, _closed, cop, ck, citem, ret, workers,
                 sequencer, written>>

\* close(): self.raw.flush()
CloseFlush ==
  /\ cpc = "close_flush"
  /\ raw' = raw
  /\ cpc' = "close_raw"
  /\ UNCHANGED <<reader, config, after_failure, previous_block, queues, index,
                 _crc, running, _size, _closed, cop, ck, citem, ret, workers,
                 sequencer, written>>

\* close(): self.raw.close(); self._closed = True
CloseRaw ==
  /\ cpc = "close_raw"
  /\ raw' = [raw EXCEPT !.closed = TRUE]
  /\ _closed' = TRUE
  /\ cpc' = "idle" /\ cop' = "none"
  /\ ret' = [op |-> "close", outcome |-> "ok", val |-> 0]
  /\ UNCHANGED <<reader, config, after_failure, previous_block, queues, index,
                 _crc, running, _size, ck, citem, workers, sequencer,
                 written>>

\* ---- compression worker k: _compress(k) -----------------------------------
\* while self.running:
CompressLoop(k) ==
  /\ wpc[k] = "top"
  /\ wpc' = [wpc EXCEPT ![k] = IF running THEN "get" ELSE "dead"]
  /\ UNCHANGED <<reader, raw, config, after_failure, previous_block, queues,
                 index, _crc, running, _size, _closed, cpc, cop, ck, citem,
                 ret, wunit, sequencer, written>>

\* in_queue.get(timeout=0.05), then the codec calls on the item
CompressGet(k) ==
  /\ wpc[k] = "get"
  /\ IF input_queues[k] = <<>>
     THEN /\ wpc' = [wpc EXCEPT ![k] = "top"]
          /\ UNCHANGED <<input_queues, wunit>>
     ELSE LET item == Head(input_queues[k])
          IN /\ input_queues' = [input_queues EXCEPT ![k] = Tail(@)]
             /\ wunit' = [wunit EXCEPT ![k] =
                            [compressed |-> Deflate(item.data, item.zdict),
                             crc |-> crc32(item.data),
                             data_length |-> item.data.len,
                             call |-> item.call]]
             /\ wpc' = [wpc EXCEPT ![k] = "put"]
  /\ UNCHANGED <<reader, raw, config, after_failure, previous_block,
                 in_unfinished, output_queues, out_unfinished, index, _crc,
                 running, _size, _closed, cpc, cop, ck, citem, ret, sequencer,
                 written>>

\* out_queue.put((compressed, crc, data_length))
CompressPutUnbounded(k) ==
  /\ wpc[k] = "put"
  /\ output_queues' = [output_queues EXCEPT ![k] = Append(@, wunit[k])]
  /\ out_unfinished' = [out_unfinished EXCEPT ![k] = @ + 1]
  /\ wunit' = [wunit EXCEPT ![k] = NoUnit]
  /\ wpc' = [wpc EXCEPT ![k] = "done"]
  /\ UNCHANGED <<reader, raw, config, after_failure, previous_block,
                 input_queues, in_unfinished, index, _crc, running, _size,
                 _closed, cpc, cop, ck, citem, ret, sequencer, written>>

CompressPut(k) ==
  /\ wpc[k] = "put"
  /\ Len(output_queues[k]) < queue_size
  /\ output_queues' = [output_queues EXCEPT ![k] = Append(@, wunit[k])]
  /\ out_unfinished' = [out_unfinished EXCEPT ![k] = @ + 1]
  /\ wunit' = [wunit EXCEPT ![k] = NoUnit]
  /\ wpc' = [wpc EXCEPT ![k] = "done"]
  /\ UNCHANGED <<reader, raw, config, after_failure, previous_block,
                 input_queues, in_unfinished, index, _crc, running, _size,
                 _closed, cpc, cop, ck, citem, ret, sequencer, written>>

\* in_queue.task_done()
CompressTaskDoneForgotten(k) ==
  /\ wpc[k] = "done"
  /\ wpc' = [wpc EXCEPT ![k] = "top"]
  /\ UNCHANGED <<reader, raw, config, after_failure, previous_block, queues,
                 index, _crc, running, _size, _closed,
                 cpc, cop, ck, citem, ret, wunit, sequencer, written>>

CompressTaskDone(k) ==
  /\ wpc[k] = "done"
  /\ in_unfinished' = [in_unfinished EXCEPT ![k] = @ - 1]
  /\ wpc' = [wpc EXCEPT ![k] = "top"]
  /\ UNCHANGED <<reader, raw, config, after_failure, previous_block,
                 input_queues, output_queues, out_unfinished, index, _crc,
                 running, _size, _closed, cpc, cop, ck, citem, ret, wunit,
                 sequencer, written>>

\* ---- output sequencer: _write() -------------------------------------------
\* while self.running:
WriteLoopNoPublish ==
  /\ spc = "top"
  /\ spc' = IF running THEN "get" ELSE "dead"
  /\ UNCHANGED <<reader, raw, config, after_failure, previous_block, queues,
                 index, _crc, running, _size, _closed, cpc, cop, ck, citem,
                 ret, workers, sindex, total_crc, size, sunit, written>>

WriteLoop ==
  /\ spc = "top"
  /\ spc' = IF running THEN "get" ELSE "publish"
  /\ UNCHANGED <<reader, raw, config, after_failure, previous_block, queues,
                 index, _crc, running, _size, _closed, cpc, cop, ck, citem,
                 ret, workers, sindex, total_crc, size, sunit, written>>

\* output_queues[index % self.threads].get(timeout=0.05), then the fold of
\* the unit's checksum and length into the locals
WriteGet ==
  /\ spc = "get"
  /\ LET q == OutIndex(sindex, threads)
     IN IF output_queues[q] = <<>>
        THEN /\ spc' = "top"
             /\ UNCHANGED <<output_queues, total_crc, size, sunit>>
        ELSE LET u == Head(output_queues[q])
             IN /\ output_queues' = [output_queues EXCEPT ![q] = Tail(@)]
                /\ total_crc' = crc32_combine(total_crc, u.crc, u.data_length)
                /\ size' = AddLength(size, u.data_length)
                /\ sunit' = u
                /\ spc' = "write"
  /\ UNCHANGED <<reader, raw, config, after_failure, previous_block,
                 input_queues, in_unfinished, out_unfinished, index, _crc,
                 running, _size, _closed, cpc, cop, ck, citem, ret, workers,
                 sindex, written>>

\* fp.write(compressed)
WriteSink ==
  /\ spc = "write"
  /\ raw' = [raw EXCEPT !.data = Append(@, sunit.compressed)]
  /\ spc' = "done"
  /\ UNCHANGED <<reader, config, after_failure, previous_block, queues, index,
                 _crc, running, _size, _closed, cpc, cop, ck, citem, ret,
                 workers, sindex, total_crc, size, sunit, written>>

\* output_queue.task_done(); index += 1
WriteTaskDone ==
  /\ spc = "done"
  /\ out_unfinished' =
       [out_unfinished EXCEPT ![OutIndex(sindex, threads)] = @ - 1]
  /\ sindex' = sindex + 1
  /\ sunit' = NoUnit
  /\ spc' = "top"
  /\ UNCHANGED <<reader, raw, config, after_failure, previous_block,
                 input_queues, in_unfinished, output_queues, index, _crc,
                 running, _size, _closed, cpc, cop, ck, citem, ret, workers,
                 total_crc, size, written>>

\* self._crc = total_crc; self._size = size; the thread ends
WritePublish ==
  /\ spc = "publish"
  /\ _crc' = total_crc
  /\ _size' = size
  /\ spc' = "dead"
  /\ UNCHANGED <<reader, raw, config, after_failure, previous_block, queues,
                 index, running, _closed, cpc, cop, ck, citem, ret, workers,
                 sindex, total_crc, size, sunit, written>>

\* ---- the writer as a whole ------------------------------------------------
Caller ==
  \/ WriteGzipHeader \/ StartRunning \/ StartOutput \/ StartWorker
  \/ (\E b \in Payloads : WriteCall(b)) \/ WritePut
  \/ FlushCall \/ FlushJoinIn \/ FlushJoinOut \/ FlushRaw
  \/ CloseCall \/ StopRunning \/ JoinOutput \/ JoinWorker
  \/ CloseMarker \/ CloseTrailer \/ CloseFlush \/ CloseRaw

Compressor == \E k \in Workers :
  CompressLoop(k) \/ CompressGet(k) \/ CompressPut(k) \/ CompressTaskDone(k)

Sequencer == WriteLoop \/ WriteGet \/ WriteSink \/ WriteTaskDone \/ WritePublish

Next == Caller \/ Compressor \/ Sequencer

Spec == Init /\ [][Next]_vars

\* ---- the writer with stop_immediately() as a public call -----------------
\* stop_immediately() called by the user; it goes on as within close()
StopCall ==
  /\ cpc = "idle"
  /\ cop' = "stop_immediately" /\ cpc' = "stop"
  /\ after_failure' = AnyFailed
  /\ UNCHANGED <<reader, raw, config, previous_block, queues, index, _crc,
                 running, _size, _closed, ck, citem, ret, workers, sequencer,
                 written>>

NextStop == Next \/ StopCall

SpecStop == Init /\ [][NextStop]_vars

\* ---- the writer under fair scheduling -----------------------------------
\* the caller goes on with the call it is in; when it makes its next call
\* is up to it
CallerStep ==
  \/ WriteGzipHeader \/ StartRunning \/ StartOutput \/ StartWorker
  \/ WritePut \/ FlushJoinIn \/ FlushJoinOut \/ FlushRaw
  \/ StopRunning \/ JoinOutput \/ JoinWorker
  \/ CloseMarker \/ CloseTrailer \/ CloseFlush \/ CloseRaw

CompressStep(k) ==
  /\ k \in Workers
  /\ CompressLoop(k) \/ CompressGet(k) \/ CompressPut(k) \/ CompressTaskDone(k)

\* every thread that can take a step gets the processor in the end
Fairness ==
  /\ WF_vars(CallerStep)
  /\ \A k \in 0 .. (MaxThreads - 1) : WF_vars(CompressStep(k))
  /\ WF_vars(Sequencer)

\* the runs checked for progress make at most MaxFairWrites write calls
NextFair == Next /\ index' <= MaxFairWrites

FairSpec == Init /\ [][NextFair]_vars /\ Fairness

\* ---- the writer with failing codec and sink ------------------------------
\* in_queue.get(timeout=0.05) returns an item and a codec call on it raises:
\* nothing catches it and the thread ends, the item neither put on the
\* output queue nor marked done
CompressFailMarksDone(k) ==
  /\ wpc[k] = "get"
  /\ input_queues[k] # <<>>
  /\ input_queues' = [input_queues EXCEPT ![k] = Tail(@)]
  /\ in_unfinished' = [in_unfinished EXCEPT ![k] = @ - 1]
  /\ wpc' = [wpc EXCEPT ![k] = "failed"]
  /\ UNCHANGED <<reader, raw, config, after_failure, previous_block,
                 output_queues, out_unfinished, index, _crc,
                 running, _size, _closed, cpc, cop, ck, citem, ret, wunit,
                 sequencer, written>>

CompressFail(k) ==
  /\ wpc[k] = "get"
  /\ input_queues[k] # <<>>
  /\ input_queues' = [input_queues EXCEPT ![k] = Tail(@)]
  /\ wpc' = [wpc EXCEPT ![k] = "failed"]
  /\ UNCHANGED <<reader, raw, config, after_failure, previous_block,
                 in_unfinished, output_queues, out_unfinished, index, _crc,
                 running, _size, _closed, cpc, cop, ck, citem, ret, wunit,
                 sequencer, written>>

\* fp.write(compressed) raises: nothing catches it and the thread ends, the
\* unit not marked done and _crc and _size not published
WriteFail ==
  /\ spc = "write"
  /\ spc' = "failed"
  /\ UNCHANGED <<reader, raw, config, after_failure, previous_block, queues,
                 index, _crc, running, _size, _closed, cpc, cop, ck, citem,
                 ret, workers, sindex, total_crc, size, sunit, written>>

NextFail == Next \/ (\E k \in Workers : CompressFail(k)) \/ WriteFail

SpecFail == Init /\ [][NextFail]_vars

\* ---- the reader: prefetch worker, _decompress() ---------------------------
\* while self.running:
DecompressLoop ==
  /\ dpc = "top"
  /\ dpc' = IF r_running THEN "read" ELSE "dead"
  /\ UNCHANGED <<wvars, r_fileobj, r_pos, r_queue, r_exception, r_buffer,
                 r_running, ddata, rpc, rtarget, rret, r_produced,
                 r_delivered>>

\* data = self.fileobj.read(block_size): the next 1..block_size bytes of the
\* stream, or b"" at its end, or a failure of the codec
DecompressRead ==
  /\ dpc = "read"
  /\ \/ \E n \in 1 .. BlockSize :
          /\ ~r_fileobj.eof
          /\ r_fileobj.pos + n <= MaxSource
          /\ ddata' = [i \in 1 .. n |-> r_fileobj.pos + i]
          /\ r_fileobj' = [r_fileobj EXCEPT !.pos = @ + n]
          /\ dpc' = "put_check"
          /\ UNCHANGED r_exception
     \/ /\ r_fileobj' = [r_fileobj EXCEPT !.eof = TRUE]
        /\ dpc' = "dead"
        /\ UNCHANGED <<ddata, r_exception>>
     \/ /\ ~r_fileobj.eof
        /\ r_exception' = "error"
        /\ dpc' = "dead"
        /\ UNCHANGED <<ddata, r_fileobj>>
  /\ UNCHANGED <<wvars, r_pos, r_queue, r_buffer, r_running, rpc, rtarget,
                 rret, r_produced, r_delivered>>

\* the inner while self.running: of the put loop
DecompressPutLoopForever ==
  /\ dpc = "put_check"
  /\ dpc' = "put"
  /\ UNCHANGED <<wvars, r_fileobj, r_pos, r_queue, r_exception, r_buffer,
                 r_running, ddata, rpc, rtarget, rret, r_produced,
                 r_delivered>>

DecompressPutLoop ==
  /\ dpc = "put_check"
  /\ dpc' = IF r_running THEN "put" ELSE "top"
  /\ UNCHANGED <<wvars, r_fileobj, r_pos, r_queue, r_exception, r_buffer,
                 r_running, ddata, rpc, rtarget, rret, r_produced,
                 r_delivered>>

\* block_queue.put(data, timeout=0.05); break / except queue.Full: pass
DecompressPut ==
  /\ dpc = "put"
  /\ IF Len(r_queue) < ReaderQueueSize
     THEN /\ r_queue' = Append(r_queue, ddata)
          /\ r_produced' = Append(r_produced, ddata)
          /\ ddata' = <<>>
          /\ dpc' = "top"
     ELSE /\ dpc' = "put_check"
          /\ UNCHANGED <<r_queue, r_produced, ddata>>
  /\ UNCHANGED <<wvars, r_fileobj, r_pos, r_exception, r_buffer, r_running,
                 rpc, rtarget, rret, r_delivered>>

\* ---- the reader: consumer, readinto(b) ------------------------------------
\* io.BytesIO.readinto(b) on a buffer with these bytes left: min(len(b), left)
BytesIOReadinto(left, n) == IF n < Len(left) THEN n ELSE Len(left)

\* result = self.buffer.readinto(b); self.pos += result; return result
Deliver(buf, n) ==
  LET result == BytesIOReadinto(buf, n)
  IN /\ r_buffer' = SubSeq(buf, result + 1, Len(buf))
     /\ r_delivered' = r_delivered \o SubSeq(buf, 1, result)
     /\ r_pos' = r_pos + result
     /\ rret' = [op |-> "readinto", target |-> n, outcome |-> "ok",
                val |-> result]
     /\ rpc' = "idle"

\* readinto(b) with len(b) = n, up to the first queue.get
ReadInto(n) ==
  /\ rpc = "idle"
  /\ rtarget' = n
  /\ IF BytesIOReadinto(r_buffer, n) = 0
     THEN /\ rpc' = "get"
          /\ UNCHANGED <<r_buffer, r_delivered, r_pos, rret>>
     ELSE Deliver(r_buffer, n)
  /\ UNCHANGED <<wvars, r_fileobj, r_queue, r_exception, r_running, dpc,
                 ddata, r_produced>>

\* data_from_queue = self.queue.get(timeout=0.01), then lines 92-95
ReadGet ==
  /\ rpc = "get"
  /\ IF r_queue = <<>>
     THEN /\ rpc' = "is_alive"
          /\ UNCHANGED <<r_queue, r_buffer, r_delivered, r_pos, rret>>
     ELSE /\ r_queue' = Tail(r_queue)
          /\ Deliver(Head(r_queue), rtarget)
  /\ UNCHANGED <<wvars, r_fileobj, r_exception, r_running, dpc, ddata,
                 rtarget, r_produced>>

\* except queue.Empty: if not self.worker.is_alive(): ...
ReadEmpty ==
  /\ rpc = "is_alive"
  /\ IF dpc # "dead"
     THEN rpc' = "get" /\ UNCHANGED rret
     ELSE /\ rpc' = "idle"
          /\ rret' = [op |-> "readinto", target |-> rtarget,
                      outcome |-> IF r_exception # "none"
                                  THEN "raise" ELSE "ok",
                      val |-> 0]
  /\ UNCHANGED <<wvars, r_fileobj, r_pos, r_queue, r_exception, r_buffer,
                 r_running, dpc, ddata, rtarget, r_produced, r_delivered>>

PrefetchWorker ==
  DecompressLoop \/ DecompressRead \/ DecompressPutLoop \/ DecompressPut

Consumer == (\E n \in 0 .. MaxTarget : ReadInto(n)) \/ ReadGet \/ ReadEmpty

NextReader == PrefetchWorker \/ Consumer

SpecReader == Init /\ [][NextReader]_vars

\* ---- the reader with close() ----------------------------------------------
\* close(): self.running = False
ReaderClose ==
  /\ rpc = "idle"
  /\ r_running' = FALSE
  /\ rpc' = "close_join"
  /\ UNCHANGED <<wvars, r_fileobj, r_pos, r_queue, r_exception, r_buffer,
                 dpc, ddata, rtarget, rret, r_produced, r_delivered>>

\* close(): self.worker.join()
ReaderCloseJoin ==
  /\ rpc = "close_join"
  /\ dpc = "dead"
  /\ rpc' = "close_file"
  /\ UNCHANGED <<wvars, r_fileobj, r_pos, r_queue, r_exception, r_buffer,
                 r_running, dpc, ddata, rtarget, rret, r_produced,
                 r_delivered>>

\* close(): self.fileobj.close()
ReaderCloseFile ==
  /\ rpc = "close_file"
  /\ r_fileobj' = [r_fileobj EXCEPT !.closed = TRUE]
  /\ rret' = [op |-> "close", target |-> 0, outcome |-> "ok", val |-> 0]
  /\ rpc' = "idle"
  /\ UNCHANGED <<wvars, r_pos, r_queue, r_exception, r_buffer, r_running,
                 dpc, ddata, rtarget, r_produced, r_delivered>>

NextReaderClose ==
  NextReader \/ ReaderClose \/ ReaderCloseJoin \/ ReaderCloseFile

\* the prefetch worker gets the processor in the end, and so does the
\* caller inside close(); when the caller calls readinto is up to it
FairnessReader ==
  /\ WF_vars(PrefetchWorker)
  /\ WF_vars(ReaderCloseJoin \/ ReaderCloseFile)

FairSpecReader == Init /\ [][NextReaderClose]_vars /\ FairnessReader

\* ---- a writer or a reader ------------------------------------------------
\* the two classes share no state: a run is the run of one object of either
NextEither == (InitReader /\ Next) \/ (InitWriter /\ NextReader)

SpecEither == Init /\ [][NextEither]_vars

\* ---- reference definitions for the properties ----------------------------
\* the compressed block units in the sink, in the order they were written
Blocks(data) == SelectSeq(data, LAMBDA e : e.kind = "block")

Last(seq) == seq[Len(seq)]

\* a decoder for the stream of blocks: a block decodes to its data when its
\* dictionary is a suffix of the bytes decoded so far, else the stream is bad
RECURSIVE Inflate(_, _)
Inflate(blocks, out) ==
  IF blocks = <<>> THEN out
  ELSE LET b == Head(blocks)
           ok == \/ b.zdict.len = 0
                 \/ /\ out # <<>>
                    /\ Last(out).byte = b.zdict.byte
                    /\ Last(out).len >= b.zdict.len
       IN IF ~ok THEN <<"bad stream">>
          ELSE Inflate(Tail(blocks),
                       IF b.data.len = 0 THEN out ELSE Append(out, b.data))

\* the concatenation of payloads, as its non-empty runs
Concatenation(payloads) == SelectSeq(payloads, LAMBDA p : p.len # 0)

\* the checksum of the concatenation of payloads
RECURSIVE StreamCrc(_)
StreamCrc(payloads) ==
  IF payloads = <<>> THEN 0
  ELSE LET n == Len(payloads)
       IN crc32_combine(StreamCrc(SubSeq(payloads, 1, n - 1)),
                        crc32(payloads[n]), payloads[n].len)

\* the total length of payloads modulo 2^32
RECURSIVE StreamSizeMod32(_)
StreamSizeMod32(payloads) ==
  IF payloads = <<>> THEN <<0, 0>>
  ELSE LET n == Len(payloads)
           s == StreamSizeMod32(SubSeq(payloads, 1, n - 1))
           lo == s[2] + (payloads[n].len % Limb)
       IN <<(s[1] + (payloads[n].len \div Limb) + (lo \div Limb)) % Limb,
            lo % Limb>>

\* the trailing min(32768, len) bytes of the payload before call c
Min(a, b) == IF a < b THEN a ELSE b

ExpectedDict(c) ==
  IF c = 0 THEN [byte |-> 0, off |-> 0, len |-> 0]
  ELSE LET p == written[c]
           n == Min(DEFLATE_WINDOW_SIZE, p.len)
       IN [byte |-> p.byte, off |-> p.len - n, len |-> n]

CloseReturned == _closed

\* ---- C1 -------------------------------------------------------------------
\* C1: in every reachable state the block units written to the sink are, in
\* order, the compressions of the payloads of the first write calls: the
\* i-th unit in the sink carries the payload of the i-th write call, so no
\* unit is written before a unit of an earlier call.
C1_SinkIsPrefixInCallOrder ==
  LET u == Blocks(raw.data)
  IN /\ Len(u) <= Len(written)
     /\ \A i \in 1 .. Len(u) : u[i].data = written[i]

\* call 2 was compressed before call 1, after call 0 had reached the sink
C1_Witness ==
  /\ threads = 2
  /\ Len(Blocks(raw.data)) = 1
  /\ output_queues[0] # <<>> /\ Head(output_queues[0]).call = 2
  /\ input_queues[1] # <<>> /\ Head(input_queues[1]).call = 1
  /\ written[1] # written[2] /\ written[2] # written[3]

\* ---- C2 -------------------------------------------------------------------
\* C2: when close() has returned, the sink holds exactly one block unit per
\* write call, each once and in call order, and the stream of blocks decodes
\* to the concatenation of the written payloads.
C2_NoLossNoDuplication ==
  CloseReturned =>
    LET u == Blocks(raw.data)
    IN /\ Len(u) = Len(written)
       /\ \A i \in 1 .. Len(written) : u[i].data = written[i]
       /\ Inflate(u, <<>>) = Concatenation(written)

\* one worker, capacity one, three writes of which one had to wait for room
C2_Witness ==
  /\ CloseReturned
  /\ threads = 1
  /\ Len(written) = 3
  /\ written[1] # written[2]

\* ---- C3 -------------------------------------------------------------------
\* C3: the checksum close() reads from _crc and packs into the trailer is
\* the checksum of the concatenation, in call order, of all payloads written.
C3_TrailerChecksum ==
  /\ cpc = "trailer" => _crc = StreamCrc(written)
  /\ (raw.data # <<>> /\ Last(raw.data).kind = "trailer")
       => Last(raw.data).crc = StreamCrc(written)

\* more blocks than workers, of different payloads
C3_Witness ==
  /\ raw.data # <<>> /\ Last(raw.data).kind = "trailer"
  /\ Len(written) > threads /\ threads = 2
  /\ written[1] # written[2] /\ written[1].len # 0 /\ written[2].len # 0
  /\ Last(raw.data).crc # 0

\* ---- C4 -------------------------------------------------------------------
\* C4: the size field of the trailer is the sum of the lengths of all
\* payloads written, modulo 2^32; with no write the sink is the header, the
\* end marker and a trailer of size 0.
C4_TrailerSize ==
  (raw.data # <<>> /\ Last(raw.data).kind = "trailer") =>
    /\ Last(raw.data).size = StreamSizeMod32(written)
    /\ written = <<>> =>
         raw.data = <<GzipHeader, EndMarker,
                      [kind |-> "trailer", crc |-> 0, size |-> <<0, 0>>]>>

\* the total written is 3 * 2147418112 > 2^32 - 1
C4_Witness ==
  /\ raw.data # <<>> /\ Last(raw.data).kind = "trailer"
  /\ Len(written) = 3
  /\ \A i \in 1 .. 3 : written[i].len = 2147418112
  /\ _size[1] >= Limb
  /\ Last(raw.data).size = <<32765, 0>>

\* ---- C5 -------------------------------------------------------------------
\* C5: the sink starts with the header, written before any thread starts;
\* when close() has returned the sink is the header, the block units, one
\* end marker and one trailer, in this order; once the end marker is in the
\* sink no block unit is written, and once the trailer is in the sink
\* nothing is written.
C5_LayoutAtClose ==
  LET d == raw.data
      n == Len(raw.data)
  IN /\ (spc # "new" \/ \E k \in Workers : wpc[k] # "new")
          => (n >= 1 /\ d[1] = GzipHeader)
     /\ \A i \in 2 .. n : d[i].kind # "header"
     /\ CloseReturned =>
          /\ n = Len(written) + 3
          /\ d[1] = GzipHeader
          /\ \A i \in 2 .. (n - 2) : d[i].kind = "block"
          /\ d[n - 1] = EndMarker
          /\ d[n].kind = "trailer"

C5_NothingAfterEnd ==
  /\ (\E i \in 1 .. Len(raw.data) : raw.data[i].kind = "end")
       => \/ raw'.data = raw.data
          \/ raw'.data = Append(raw.data, Trailer(_crc, _size))
  /\ (\E i \in 1 .. Len(raw.data) : raw.data[i].kind = "trailer")
       => raw'.data = raw.data

C5_SinkLayout == [](C5_LayoutAtClose) /\ [][C5_NothingAfterEnd]_vars

C5_Witness ==
  /\ CloseReturned
  /\ Len(raw.data) = 6
  /\ ret.op = "close" /\ ret.outcome = "ok"

\* ---- C6 -------------------------------------------------------------------
\* C6: when the joins of flush() have passed, and before and after the step
\* on which flush() flushes the sink and returns, every block written so far
\* is in the sink, and every input and output queue is empty with no
\* unfinished item.
Drained ==
  /\ Len(Blocks(raw.data)) = Len(written)
  /\ \A k \in Workers :
       /\ input_queues[k] = <<>> /\ in_unfinished[k] = 0
       /\ output_queues[k] = <<>> /\ out_unfinished[k] = 0

C6_FlushStep == cpc = "raw_flush" => (Drained /\ Drained')

C6_FlushPostcondition ==
  [](cpc = "raw_flush" => Drained) /\ [][C6_FlushStep]_vars

\* a flush() that flushed three blocks, and was not part of close()
C6_Witness ==
  /\ ret.op = "flush" /\ ret.outcome = "ok"
  /\ cpc = "idle"
  /\ Len(written) = 3
  /\ Drained
  /\ ~_closed

\* ---- C7 -------------------------------------------------------------------
\* C7: close() on a closed writer does not raise (and writes nothing).
C7_SecondCloseDoesNotRaise ==
  ~(_closed /\ ret.op = "close" /\ ret.outcome = "IOError")

\* ---- C8 -------------------------------------------------------------------
\* C8: once close() has completed, a write() or flush() call ends at once
\* with an error, and no step enqueues an item, changes the call index or the
\* retained previous block, or writes to the sink.
C8_Step ==
  _closed =>
    /\ UNCHANGED <<raw, queues, index, previous_block, written, cpc>>
    /\ ret'.op \in {"write", "flush"} => ret'.outcome = "IOError"

C8_ClosedIsTerminal == [][C8_Step]_vars

C8_Witness ==
  /\ _closed
  /\ ret.op = "write" /\ ret.outcome = "IOError"
  /\ index < MaxWrites

RECURSIVE Flatten(_)
Flatten(chunks) ==
  IF chunks = <<>> THEN <<>> ELSE Head(chunks) \o Flatten(Tail(chunks))

EndOfStreamReturned ==
  /\ rpc = "idle"
  /\ rret.op = "readinto" /\ rret.outcome = "ok"
  /\ rret.target > 0 /\ rret.val = 0

C10_NoPrematureEndOfStream ==
  EndOfStreamReturned =>
    /\ dpc = "dead"
    /\ r_queue = <<>>
    /\ r_buffer = <<>>
    /\ r_delivered = Flatten(r_produced)

\* ---- C11 ------------------------------------------------------------------
\* C11: a failure of the codec in the prefetch worker is recorded, and
\* readinto raises it only once the worker has terminated and the queue is
\* empty, so that every chunk put on the queue before the failure has been
\* taken off it by then.
FailureRaised ==
  /\ rpc = "idle"
  /\ rret.op = "readinto" /\ rret.outcome = "raise"

C11_FailureAfterAllChunks ==
  FailureRaised =>
    /\ dpc = "dead"
    /\ r_exception # "none"
    /\ r_queue = <<>>

\* ---- C12 ------------------------------------------------------------------
\* C12: once a compression worker or the sequencer has failed, a write,
\* flush or close call that begins afterwards does not return success.
C12_FailureSurfaced ==
  (cpc = "idle" /\ after_failure /\ ret.op \in {"write", "flush", "close"})
    => ret.outcome # "ok"

\* ---- C13 ------------------------------------------------------------------
\* C13: once a compression worker or the sequencer has failed while
\* processing a block, the sink holds neither the end marker nor the
\* trailer, now or later.
C13_NoTrailerAfterFailure ==
  AnyFailed =>
    \A i \in 1 .. Len(raw.data) : raw.data[i].kind \notin {"end", "trailer"}

\* close() is called after worker 1 of two has failed on a block and waits
\* on that worker's input queue, worker 0's block being in the sink
C13_Witness ==
  /\ threads = 2 /\ Failed(wpc[1])
  /\ cop = "close" /\ cpc = "join_in" /\ ck = 1
  /\ after_failure
  /\ Len(Blocks(raw.data)) = 1

\* ---- C14 ------------------------------------------------------------------
\* C14: with no failing thread and under fair scheduling every write call
\* returns, every flush call returns, and every close call returns with the
\* writer closed and all its threads terminated.
AllTerminated == Terminated(spc) /\ \A k \in Workers : Terminated(wpc[k])

C14_Progress ==
  /\ [](cpc = "idle" /\ ret.op = "close" /\ ret.outcome = "ok"
          => _closed /\ AllTerminated)
  /\ (cop \in {"write", "flush", "close"}) ~> (cop = "none")

\* write() waits to put on a full input queue
C14_Witness ==
  /\ cop = "write" /\ cpc = "put"
  /\ Len(input_queues[WorkerIndex(citem.call, threads)]) = queue_size

\* ---- C15 ------------------------------------------------------------------
\* C15: the i-th write call (from 0) puts its item on input queue i mod N
\* and on no other, advances index by one and returns the length of its
\* payload; worker k holds only items of calls k, k + N, ...; the j-th unit
\* the sequencer consumes is taken from output queue j mod N.
C15_ByResidue ==
  /\ index = Len(written)
  /\ \A k \in Workers :
       /\ \A i \in 1 .. Len(input_queues[k]) :
            input_queues[k][i].call % threads = k
       /\ wpc[k] = "put" => wunit[k].call % threads = k
       /\ \A i \in 1 .. Len(output_queues[k]) :
            output_queues[k][i].call % threads = k
  /\ spc \in {"write", "done"} => sunit.call = sindex

C15_Step ==
  /\ (cpc = "idle" /\ cpc' = "put") =>
       /\ index' = index + 1
       /\ citem'.call = index
       /\ UNCHANGED input_queues
  /\ (cpc = "put" /\ cpc' = "idle") =>
       /\ ret' = [op |-> "write", outcome |-> "ok", val |-> citem.data.len]
       /\ input_queues' =
            [input_queues EXCEPT ![citem.call % threads] = Append(@, citem)]
       /\ UNCHANGED index
  /\ (spc = "get" /\ spc' = "write") =>
       /\ output_queues' =
            [output_queues EXCEPT ![sindex % threads] = Tail(@)]
       /\ sunit' = Head(output_queues[sindex % threads])

C15_RoundRobin == [](C15_ByResidue) /\ [][C15_Step]_vars

\* with two workers, the third write call has returned the length of its
\* payload and its item is on input queue 0, the second call's on queue 1
C15_Witness ==
  /\ threads = 2 /\ index = 3 /\ cpc = "idle"
  /\ ret = [op |-> "write", outcome |-> "ok", val |-> 2147418112]
  /\ Len(input_queues[0]) = 1 /\ input_queues[0][1].call = 2
  /\ Len(input_queues[1]) = 1 /\ input_queues[1][1].call = 1
  /\ sindex = 1

\* ---- C16 ------------------------------------------------------------------
\* C16: every input queue and output queue of the writer and the chunk
\* queue of the reader holds at most its capacity of items, and the blocks
\* held by the writer's queues and compression workers number at most
\* N * (2 * capacity + 1).
HeldBy(k) ==
  Len(input_queues[k]) + (IF wpc[k] = "put" THEN 1 ELSE 0)
    + Len(output_queues[k])

RECURSIVE HeldBelow(_)
HeldBelow(n) == IF n = 0 THEN 0 ELSE HeldBy(n - 1) + HeldBelow(n - 1)

CallerAtSink ==
  cpc \in {"header", "raw_flush", "marker", "trailer", "close_flush",
           "close_raw"}

C17_Ownership ==
  /\ CallerAtSink => spc # "write"
  /\ cpc = "header" => (spc = "new" /\ \A k \in Workers : wpc[k] = "new")
  /\ cpc = "raw_flush" => (spc \notin {"write", "done"} /\ sunit = NoUnit)
  /\ cpc \in {"marker", "trailer", "close_flush", "close_raw"}
       => spc = "dead"

C17_Step ==
  /\ (total_crc' # total_crc \/ size' # size)
       => (spc = "get" /\ spc' = "write" /\ UNCHANGED <<cpc, wpc, raw>>)
  /\ (_crc' # _crc \/ _size' # _size)
       => /\ spc = "publish" /\ spc' = "dead"
          /\ _crc' = total_crc /\ _size' = size
          /\ UNCHANGED <<cpc, wpc, total_crc, size>>

C17_SingleOwner == [](C17_Ownership) /\ [][C17_Step]_vars

\* close() is about to write the trailer from the checksum and size the
\* terminated sequencer has published for two blocks
C17_Witness ==
  /\ cpc = "trailer" /\ spc = "dead"
  /\ Len(Blocks(raw.data)) = 2
  /\ _crc = total_crc /\ _crc # 0
  /\ _size = size /\ _size # <<0, 0>>

\* ---- C18 ------------------------------------------------------------------
\* C18: under fair scheduling a close() call of the reader returns, also
\* when the queue is full and nothing is read any more, and once it has
\* returned the prefetch worker has terminated.
ReaderCloseReturned == rpc = "idle" /\ rret.op = "close"

C18_CloseTerminates ==
  /\ [](ReaderCloseReturned => dpc = "dead")
  /\ (rpc = "close_join") ~> ReaderCloseReturned

\* close() has returned while the queue is full and the worker, now
\* terminated, still has the chunk it could not put
C18_Witness ==
  /\ ReaderCloseReturned
  /\ r_fileobj.closed
  /\ Len(r_queue) = ReaderQueueSize
  /\ ddata # <<>>
  /\ dpc = "dead"

\* ---- C19 ------------------------------------------------------------------
\* C19: while stop_immediately() waits for the threads, no compression
\* worker waits to put a unit on a full output queue that the terminated
\* sequencer will not consume any more, a wait that never ends and keeps
\* stop_immediately() from returning.
C19_StopNotStuck ==
  ~ /\ cop = "stop_immediately"
    /\ cpc \in {"join_output", "join_worker"}
    /\ Terminated(spc)
    /\ \E k \in Workers :
         wpc[k] = "put" /\ Len(output_queues[k]) >= queue_size

\* ---- C20 ------------------------------------------------------------------
\* C20: for readinto calls with targets of any size, zero included, no
\* byte of the leftover buffer is discarded undelivered (the bytes returned,
\* the leftover buffer and the chunks on the queue are together the bytes
\* of the chunks the worker has put, in order), a call returns at most the
\* size of its target, and tell() is the number of bytes returned so far.
tell == r_pos

C20_NoLeftoverDiscarded ==
  /\ r_delivered \o r_buffer \o Flatten(r_queue) = Flatten(r_produced)
  /\ (rret.op = "readinto" /\ rret.outcome = "ok") => rret.val <= rret.target
  /\ tell = Len(r_delivered)
====
